---- MODULE Spec2Model ----
(***************************************************************************)
(* The course-catalog service of src/app.py: a Flask application whose     *)
(* three handlers (/catalog, /add_course, /course/<code>) read and rewrite *)
(* the flat JSON store COURSE_FILE and record spans, counters and a        *)
(* duration histogram.  Requests are served by concurrent threads of the   *)
(* development server (app.run, line 249); each thread owns its request    *)
(* context and span tree, and all threads share the store, the clock and   *)
(* the metric instruments.                                                 *)
(***************************************************************************)
EXTENDS Integers, Sequences, FiniteSets, TLC

VARIABLES
    file,            \* COURSE_FILE on disk: [exists, text]
    route_counter,   \* "route_requests": tag -> count
    error_counter,   \* "errors": <<route, error_type>> -> count
    operation_time,  \* "operation_duration": route -> [count] of recorded samples
    accepted,        \* requests taken so far by the server
    completed,       \* requests whose response passed the after-request stage
    pc,              \* per thread: position in the request
    request,         \* per thread: flask.request (endpoint, method, form, code, start_time)
    trace,           \* per thread: the request's spans and the current-span stack
    frame,           \* per thread: the handler's locals (course, courses, loaded, duration)
    result           \* per thread: response, flashes, raised exception, log entries

vars == <<file, route_counter, error_counter, operation_time, accepted,
          completed, pc, request, trace, frame, result>>

(***************************************************************************)
(* Bounds of the model.                                                    *)
(***************************************************************************)
MaxRequests == 2
MaxClock == 1

Workers == {"t1", "t2"}

\* What time.time() may return.  The wall clock is not monotonic: between two
\* readings it may have advanced or have been set back, so a reading is any
\* of these values whatever the earlier readings were.
Times == 0..MaxClock

(***************************************************************************)
(* Course records and form submissions.                                    *)
(***************************************************************************)
required_fields == <<"code", "name">>

CourseFields == <<"code", "name", "instructor", "semester", "schedule",
                  "classroom", "prerequisites", "grading", "description">>

OptionalFields == <<"instructor", "semester", "schedule", "classroom",
                    "prerequisites", "grading", "description">>

Range(s) == {s[i] : i \in DOMAIN s}

\* A dict is an ordered sequence of <<key, value>> pairs; d[key] is the value
\* of the pair with that key.
HasKey(d, k) == \E i \in DOMAIN d : d[i][1] = k

Get(d, k) == d[CHOOSE i \in DOMAIN d : d[i][1] = k][2]

\* request.form: a mapping whose domain is the set of submitted keys.
FormGet(form, k) == IF k \in DOMAIN form THEN form[k] ELSE "None"

Falsy(v) == v = "None" \/ v = ""

(***************************************************************************)
(* json.dump / json.load over a token text.                                *)
(***************************************************************************)
Punct(c) == [class |-> "punct", chars |-> c]

Str(s) == [class |-> "str", chars |-> s]

RECURSIVE JoinSeqs(_, _)
JoinSeqs(parts, sep) ==
    IF parts = <<>> THEN <<>>
    ELSE IF Len(parts) = 1 THEN parts[1]
    ELSE parts[1] \o <<sep>> \o JoinSeqs(Tail(parts), sep)

DumpDict(d) ==
    <<Punct("{")>>
    \o JoinSeqs([i \in DOMAIN d |-> <<Str(d[i][1]), Punct(":"), Str(d[i][2])>>],
                Punct(","))
    \o <<Punct("}")>>

json_dump(courses) ==
    <<Punct("[")>>
    \o JoinSeqs([i \in DOMAIN courses |-> DumpDict(courses[i])], Punct(","))
    \o <<Punct("]")>>

At(toks, i) == IF i \in DOMAIN toks THEN toks[i] ELSE [class |-> "eof", chars |-> ""]

ParseError == [ok |-> FALSE, val |-> <<>>, next |-> 0]

\* The members of an object from position i on: "key" : "value" { , ... } }
RECURSIVE ParseMembers(_, _, _)
ParseMembers(toks, i, acc) ==
    IF /\ At(toks, i).class = "str"
       /\ At(toks, i + 1) = Punct(":")
       /\ At(toks, i + 2).class = "str"
    THEN LET d == Append(acc, <<At(toks, i).chars, At(toks, i + 2).chars>>)
         IN IF At(toks, i + 3) = Punct(",") THEN ParseMembers(toks, i + 4, d)
            ELSE IF At(toks, i + 3) = Punct("}")
                 THEN [ok |-> TRUE, val |-> d, next |-> i + 4]
                 ELSE ParseError
    ELSE ParseError

ParseDict(toks, i) ==
    IF At(toks, i) # Punct("{") THEN ParseError
    ELSE IF At(toks, i + 1) = Punct("}")
         THEN [ok |-> TRUE, val |-> <<>>, next |-> i + 2]
         ELSE ParseMembers(toks, i + 1, <<>>)

\* The elements of the list from position i on: {...} { , {...} } ]
RECURSIVE ParseElements(_, _, _)
ParseElements(toks, i, acc) ==
    LET d == ParseDict(toks, i)
    IN IF ~d.ok THEN ParseError
       ELSE IF At(toks, d.next) = Punct(",")
            THEN ParseElements(toks, d.next + 1, Append(acc, d.val))
            ELSE IF At(toks, d.next) = Punct("]")
                 THEN [ok |-> TRUE, val |-> Append(acc, d.val), next |-> d.next + 1]
                 ELSE ParseError

\* json.load: the parsed list, or JSONDecodeError (ok = FALSE); the whole text
\* must be consumed.
json_load(toks) ==
    LET r == IF At(toks, 1) # Punct("[") THEN ParseError
             ELSE IF At(toks, 2) = Punct("]")
                  THEN [ok |-> TRUE, val |-> <<>>, next |-> 3]
                  ELSE ParseElements(toks, 2, <<>>)
    IN IF r.ok /\ r.next = Len(toks) + 1 THEN [ok |-> TRUE, val |-> r.val]
       ELSE [ok |-> FALSE, val |-> <<>>]

NoFile == [exists |-> FALSE, text |-> <<>>]

\* load_courses(): [] when the file does not exist, else json.load of it.
load_courses(f) ==
    IF ~f.exists THEN [ok |-> TRUE, val |-> <<>>] ELSE json_load(f.text)

(***************************************************************************)
(* Spans: tracer.start_as_current_span(...) used as a context manager.     *)
(***************************************************************************)
EmptyTrace == [spans |-> <<>>, stack |-> <<>>]

current_span(T) == T.stack[Len(T.stack)]

start_as_current_span(T, name, kind, attributes) ==
    [spans |-> Append(T.spans,
                      [name |-> name, kind |-> kind, attributes |-> attributes,
                       parent |-> IF T.stack = <<>> THEN 0 ELSE current_span(T),
                       events |-> <<>>, status |-> "UNSET", exceptions |-> <<>>,
                       ends |-> 0]),
     stack |-> Append(T.stack, Len(T.spans) + 1)]

set_attribute(T, i, key, value) ==
    [T EXCEPT !.spans[i].attributes = Append(@, <<key, value>>)]

add_event(T, i, name, attributes) ==
    [T EXCEPT !.spans[i].events = Append(@, [name |-> name, attributes |-> attributes])]

set_status(T, i, status) == [T EXCEPT !.spans[i].status = status]

record_exception(T, i, e) == [T EXCEPT !.spans[i].exceptions = Append(@, e)]

\* Mutation of span_exit: the span is ended on a normal exit only, as with a
\* span.end() call placed after the body instead of a context manager.
span_exit_unguarded(T, raised) ==
    LET i == current_span(T)
    IN [spans |-> IF raised = "None" THEN [T.spans EXCEPT ![i].ends = @ + 1]
                  ELSE T.spans,
        stack |-> SubSeq(T.stack, 1, Len(T.stack) - 1)]

\* Leaving the with block of the current span: an exception passing through is
\* recorded on the span with status ERROR, then the span is ended and the
\* previous span becomes current again.  raised = "None" on a normal exit or
\* a return.
span_exit(T, raised) ==
    LET i == current_span(T)
        T1 == IF raised = "None" THEN T
              ELSE set_status(record_exception(T, i, <<raised>>), i, "ERROR")
    IN [spans |-> [T1.spans EXCEPT ![i].ends = @ + 1],
        stack |-> SubSeq(T1.stack, 1, Len(T1.stack) - 1)]

(***************************************************************************)
(* The request context and what a handler hands back.                      *)
(***************************************************************************)
remote_addr == "127.0.0.1"

host == "127.0.0.1:5000"

EmptyForm == [k \in {} |-> ""]

NoResponse == [kind |-> "none", target |-> ""]

render_template(name) == [kind |-> "render", target |-> name]

redirect(endpoint) == [kind |-> "redirect", target |-> endpoint]

NoResult == [response |-> NoResponse, flashes |-> <<>>, exc |-> "None", log |-> <<>>]

NoFrame == [courses |-> <<>>, course |-> <<>>, loaded |-> <<>>, duration |-> 0]

NoRequest == [form |-> EmptyForm, endpoint |-> "", method |-> "", code |-> "",
              start_time |-> 0]

\* What a handler did, besides its result: the trace, the counter increments
\* it made, and its locals.
Outcome(T, res, errors, routes, fr) ==
    [trace |-> T, frame |-> fr, result |-> res, errors |-> errors, routes |-> routes]

Raise(e) ==
    [response |-> NoResponse, flashes |-> <<>>, exc |-> e, log |-> <<>>]

\* The server span FlaskInstrumentor opens for the request, and
\* add_ip_to_span's two attributes on it.
before_request_trace(rq, now) ==
    LET T0 == start_as_current_span(EmptyTrace, rq.endpoint, "SERVER", <<>>)
        T1 == set_attribute(T0, current_span(T0), "http.client_ip", remote_addr)
    IN set_attribute(T1, current_span(T1), "http.request_id", now)

(***************************************************************************)
(* The handlers.                                                           *)
(***************************************************************************)
index(T) ==
    Outcome(T, [NoResult EXCEPT !.response = render_template("index.html")],
            <<>>, <<>>, NoFrame)

course_catalog(T, f) ==
    LET T1 == start_as_current_span(T, "course_catalog_route", "INTERNAL", <<>>)
        s == current_span(T1)
        L == load_courses(f)
    IN IF ~L.ok
       THEN Outcome(span_exit(T1, "JSONDecodeError"), Raise("JSONDecodeError"),
                    <<>>, <<>>, NoFrame)
       ELSE LET T2 == set_attribute(T1, s, "total_courses", Len(L.val))
                T3 == set_attribute(T2, s, "route", "/catalog")
            IN Outcome(span_exit(T3, "None"),
                       [NoResult EXCEPT
                           !.response = render_template("course_catalog.html"),
                           !.log = <<[level |-> "INFO", event |-> "catalog_accessed"]>>],
                       <<>>, <<"/catalog">>, [NoFrame EXCEPT !.courses = L.val])

\* Mutation of missing_fields: validation stops at the first missing field.
missing_fields_first_only(form) ==
    LET all == SelectSeq(required_fields, LAMBDA fld : Falsy(FormGet(form, fld)))
    IN SubSeq(all, 1, IF all = <<>> THEN 0 ELSE 1)

\* [field for field in required_fields if not request.form.get(field)]
missing_fields(form) ==
    SelectSeq(required_fields, LAMBDA fld : Falsy(FormGet(form, fld)))

\* ', '.join(names), as the sequence of its pieces
join(names) == JoinSeqs([i \in DOMAIN names |-> <<names[i]>>], ", ")

error_message(missing) == <<"Missing fields: ">> \o join(missing)

\* str(list)
str_list(names) == <<"[">> \o join(names) \o <<"]">>

\* Lines 134-178: the missing-fields branch, inside the route span T.
validation_failure(T, missing) ==
    LET s == current_span(T)
        T1 == start_as_current_span(T, "form_validation_error", "INTERNAL",
                  << <<"error.type", "missing_fields">>,
                     <<"missing_fields", str_list(missing)>>,
                     <<"total_errors", Len(missing)>>,
                     <<"operation.type", "form_validation">>,
                     <<"client.ip", remote_addr>>,
                     <<"client.host", host>> >>)
        e == current_span(T1)
        T2 == set_status(T1, e, "ERROR")
        T3 == record_exception(T2, e, <<"ValueError">> \o error_message(missing))
        T4 == add_event(T3, e, "validation_failed",
                  << <<"error_count", Len(missing)>>,
                     <<"fields_missing", str_list(missing)>>,
                     <<"client.ip", remote_addr>> >>)
        T5 == span_exit(T4, "None")
        T6 == set_attribute(T5, s, "error", "True")
        T7 == set_attribute(T6, s, "error_type", "missing_fields")
        T8 == add_event(T7, s, "error_occurred",
                  << <<"message", error_message(missing)>> >>)
    IN Outcome(span_exit(T8, "None"),
               [response |-> redirect("add_course"),
                flashes |-> <<[message |-> error_message(missing), category |-> "error"]>>,
                exc |-> "None",
                log |-> <<[level |-> "ERROR", event |-> "form_validation_error"],
                          [level |-> "ERROR", event |-> "form_validation_failed"]>>],
               << <<"/add_course", "missing_fields">> >>, <<>>, NoFrame)

\* Lines 180-190: request.form[field] for each of the nine fields.
build_course(form) == [i \in DOMAIN CourseFields |-> <<CourseFields[i], form[CourseFields[i]]>>]

\* add_course up to and including save_courses' load_courses() (line 103): the
\* outcome is final unless its frame holds a course still to be written.
add_course(T, rq, f) ==
    LET T1 == start_as_current_span(T, "add_course_route", "INTERNAL", <<>>)
        s == current_span(T1)
        T2 == set_attribute(T1, s, "client.ip", remote_addr)
        T3 == set_attribute(T2, s, "client.host", host)
        missing == missing_fields(rq.form)
        L == load_courses(f)
    IN IF rq.method # "POST"
       THEN Outcome(span_exit(T3, "None"),
                    [NoResult EXCEPT !.response = render_template("add_course.html"),
                                     !.log = <<[level |-> "INFO", event |-> "rendered_add_course"]>>],
                    <<>>, <<>>, NoFrame)
       ELSE IF missing # <<>> THEN validation_failure(T3, missing)
       ELSE IF \E fld \in Range(CourseFields) : fld \notin DOMAIN rq.form
       THEN Outcome(span_exit(T3, "BadRequestKeyError"), Raise("BadRequestKeyError"),
                    <<>>, <<>>, NoFrame)
       ELSE IF ~L.ok
       THEN Outcome(span_exit(T3, "JSONDecodeError"), Raise("JSONDecodeError"),
                    <<>>, <<>>, [NoFrame EXCEPT !.course = build_course(rq.form)])
       ELSE Outcome(T3, NoResult, <<>>, <<>>,
                    [NoFrame EXCEPT !.course = build_course(rq.form),
                                    !.courses = L.val, !.loaded = L.val])

\* Lines 192-197, after save_courses returned, inside the route span T.
add_course_saved(T, course) ==
    LET T1 == set_attribute(T, current_span(T), "added_course", Get(course, "name"))
    IN [trace |-> span_exit(T1, "None"),
        result |-> [response |-> redirect("course_catalog"),
                    flashes |-> <<[message |-> <<"Course '", Get(course, "name"),
                                                 "' added successfully!">>,
                                   category |-> "success"]>>,
                    exc |-> "None",
                    log |-> <<[level |-> "INFO", event |-> "course_added"]>>]]

\* Mutation of first_match: the first record is taken whatever its code.
first_match_any_code(courses, i, code) == IF courses = <<>> THEN 0 ELSE 1

\* next((course for course in courses if course['code'] == code), None):
\* the index of the first match, 0 for None, -1 when a record without 'code'
\* is met first (KeyError).
RECURSIVE first_match(_, _, _)
first_match(courses, i, code) ==
    IF i > Len(courses) THEN 0
    ELSE IF ~HasKey(courses[i], "code") THEN -1
    ELSE IF Get(courses[i], "code") = code THEN i
    ELSE first_match(courses, i + 1, code)

course_details(T, rq, f, now) ==
    LET code == rq.code
        T1 == start_as_current_span(T, "course_details_route", "INTERNAL", <<>>)
        s == current_span(T1)
        T2 == set_attribute(T1, s, "client.ip", remote_addr)
        T3 == set_attribute(T2, s, "client.host", host)
        T4 == set_attribute(T3, s, "request.headers", "headers")
        L == load_courses(f)
        m == first_match(L.val, 1, code)
        course == L.val[m]
    IN IF ~L.ok
       THEN Outcome(span_exit(T4, "JSONDecodeError"), Raise("JSONDecodeError"),
                    <<>>, <<>>, NoFrame)
       ELSE IF m = -1 \/ (m > 0 /\ \E k \in {"name", "instructor", "semester"} :
                                      ~HasKey(course, k))
       THEN Outcome(span_exit(T4, "KeyError"), Raise("KeyError"),
                    <<>>, <<>>, [NoFrame EXCEPT !.courses = L.val])
       ELSE IF m = 0
       THEN Outcome(span_exit(T4, "None"),
                    [response |-> redirect("course_catalog"),
                     flashes |-> <<[message |-> <<"No course found with code '", code, "'.">>,
                                    category |-> "error"]>>,
                     exc |-> "None", log |-> <<>>],
                    << <<"/course/<code>", "not_found">> >>, <<>>,
                    [NoFrame EXCEPT !.courses = L.val])
       ELSE LET T5 == start_as_current_span(T4, <<"view_course_", code>>, "INTERNAL",
                          << <<"course.code", code>>,
                             <<"course.name", Get(course, "name")>>,
                             <<"course.instructor", Get(course, "instructor")>>,
                             <<"course.semester", Get(course, "semester")>>,
                             <<"operation.type", "course_view">>,
                             <<"client.ip", remote_addr>>,
                             <<"client.host", host>> >>)
                T6 == add_event(T5, current_span(T5), "course_accessed",
                          << <<"course.code", code>>, <<"timestamp", now>>,
                             <<"client.ip", remote_addr>> >>)
                T7 == set_attribute(T6, s, "viewed_course", Get(course, "name"))
                T8 == span_exit(T7, "None")
            IN Outcome(span_exit(T8, "None"),
                       [NoResult EXCEPT
                           !.response = render_template("course_details.html"),
                           !.log = <<[level |-> "INFO", event |-> "course_viewed"]>>],
                       <<>>, <<>>, [NoFrame EXCEPT !.courses = L.val, !.course = course])

(***************************************************************************)
(* The requests the model submits.                                         *)
(***************************************************************************)
Absent == "<absent>"

\* The form holding the submitted keys of vals.
Form(vals) == [k \in {fld \in DOMAIN vals : vals[fld] # Absent} |-> vals[k]]

Submission(code, name, optional) ==
    Form([fld \in Range(CourseFields) |->
             IF fld = "code" THEN code ELSE IF fld = "name" THEN name ELSE optional[fld]])

Scenario == [fld \in Range(OptionalFields) |-> IF fld = "instructor" THEN "Dr. A" ELSE ""]

AllFilled == [fld \in Range(OptionalFields) |-> "x"]

Without(gone) == [fld \in Range(OptionalFields) |-> IF fld \in gone THEN Absent ELSE ""]

OptionalProfiles ==
    {Scenario, AllFilled, Without({"instructor"}), Without({"description"})}

Forms ==
    {Submission("CS101", "Intro", o) : o \in OptionalProfiles}
    \cup {Submission(Absent, "Intro", Scenario), Submission("CS101", "", Scenario),
          Submission("", Absent, Scenario)}

Codes == {"CS101", "CS999"}

Get_(endpoint) == [NoRequest EXCEPT !.endpoint = endpoint, !.method = "GET"]

AddRequests ==
    {Get_("add_course")}
    \cup {[NoRequest EXCEPT !.endpoint = "add_course", !.method = "POST", !.form = fm] :
             fm \in Forms}

DetailRequests == {[Get_("course_details") EXCEPT !.code = c] : c \in Codes}

(***************************************************************************)
(* The metric instruments.                                                 *)
(***************************************************************************)
Endpoints == {"index", "course_catalog", "add_course", "course_details"}

RouteTags == Endpoints \cup {"/catalog"}

ErrorTags == {<<"/add_course", "missing_fields">>, <<"/course/<code>", "not_found">>}

\* counter.add(1, tags) for each of tags in turn
RECURSIVE counter_add(_, _)
counter_add(counter, tags) ==
    IF tags = <<>> THEN counter
    ELSE counter_add([counter EXCEPT ![tags[1]] = @ + 1], Tail(tags))

\* histogram.record(value, {"route": route}): the instrument keeps, per route,
\* how many samples it was given; the sample a request records is its
\* duration, kept in the request's frame.
histogram_record(histogram, route) == [histogram EXCEPT ![route].count = @ + 1]

RECURSIVE Sum(_, _)
Sum(f, S) ==
    IF S = {} THEN 0
    ELSE LET x == CHOOSE y \in S : TRUE IN f[x] + Sum(f, S \ {x})

(***************************************************************************)
(* Initial state: the process has started.  COURSE_FILE is what earlier    *)
(* runs left on disk: nothing, a catalog, or the empty file of a save      *)
(* interrupted between open(COURSE_FILE, 'w') and json.dump.               *)
(***************************************************************************)
StoredCourse == build_course(Submission("CS101", "Intro", Scenario))

InitialFiles ==
    {NoFile,
     [exists |-> TRUE, text |-> json_dump(<<StoredCourse>>)],
     [exists |-> TRUE, text |-> <<>>]}

Init ==
    /\ file \in InitialFiles
    /\ route_counter = [tag \in RouteTags |-> 0]
    /\ error_counter = [tag \in ErrorTags |-> 0]
    /\ operation_time = [route \in Endpoints |-> [count |-> 0]]
    /\ accepted = 0
    /\ completed = 0
    /\ pc = [r \in Workers |-> "idle"]
    /\ request = [r \in Workers |-> NoRequest]
    /\ trace = [r \in Workers |-> EmptyTrace]
    /\ frame = [r \in Workers |-> NoFrame]
    /\ result = [r \in Workers |-> NoResult]

(***************************************************************************)
(* A thread takes a request: the before-request hooks (lines 46-51 and     *)
(* 74-76) and the view function run up to its return, its exception or, on *)
(* a valid POST /add_course, up to save_courses' read of the store.        *)
(***************************************************************************)
Handle(r, rq, now, out) ==
    /\ pc[r] = "idle"
    /\ accepted < MaxRequests
    /\ accepted' = accepted + 1
    /\ request' = [request EXCEPT ![r] = [rq EXCEPT !.start_time = now]]
    /\ trace' = [trace EXCEPT ![r] = out.trace]
    /\ result' = [result EXCEPT ![r] = out.result]
    /\ frame' = [frame EXCEPT ![r] = out.frame]
    /\ error_counter' = counter_add(error_counter, out.errors)
    /\ route_counter' = counter_add(route_counter, out.routes)
    /\ pc' = [pc EXCEPT ![r] =
                 IF out.result.exc # "None" THEN "raised"
                 ELSE IF out.result.response.kind = "none" THEN "loaded"
                 ELSE "handled"]
    /\ UNCHANGED <<file, operation_time, completed>>

Index(r) ==
    LET rq == Get_("index")
    IN \E now \in Times : Handle(r, rq, now, index(before_request_trace(rq, now)))

CourseCatalog(r) ==
    LET rq == Get_("course_catalog")
    IN \E now \in Times :
           Handle(r, rq, now, course_catalog(before_request_trace(rq, now), file))

AddCourse(r) ==
    \E rq \in AddRequests, now \in Times :
        Handle(r, rq, now, add_course(before_request_trace(rq, now), rq, file))

CourseDetails(r) ==
    \E rq \in DetailRequests, now \in Times :
        Handle(r, rq, now, course_details(before_request_trace(rq, now), rq, file, now))

\* Mutation of SaveOpen: the append is made to the store as it is when the
\* file is opened, not to the list read at line 103.
SaveOpenRereads(r) ==
    LET L == load_courses(file)
        base == IF L.ok THEN L.val ELSE frame[r].courses
    IN /\ pc[r] = "loaded"
       /\ frame' = [frame EXCEPT ![r].courses = Append(base, frame[r].course)]
       /\ file' = [exists |-> TRUE, text |-> <<>>]
       /\ pc' = [pc EXCEPT ![r] = "opened"]
       /\ UNCHANGED <<route_counter, error_counter, operation_time, accepted,
                      completed, request, trace, result>>

\* save_courses, lines 104-105: courses.append(data); open(COURSE_FILE, 'w')
\* creates the file or truncates it.
SaveOpen(r) ==
    /\ pc[r] = "loaded"
    /\ frame' = [frame EXCEPT ![r].courses = Append(@, frame[r].course)]
    /\ file' = [exists |-> TRUE, text |-> <<>>]
    /\ pc' = [pc EXCEPT ![r] = "opened"]
    /\ UNCHANGED <<route_counter, error_counter, operation_time, accepted,
                   completed, request, trace, result>>

\* Mutation of written: only the new record is written.
written_new_record_only(courses) ==
    [exists |-> TRUE, text |-> json_dump(<<courses[Len(courses)]>>)]

\* What json.dump(courses, file) leaves in the file at line 106.
written(courses) == [exists |-> TRUE, text |-> json_dump(courses)]

\* save_courses, line 106, and the rest of add_course (lines 192-197).
SaveDump(r) ==
    LET out == add_course_saved(trace[r], frame[r].course)
    IN /\ pc[r] = "opened"
       /\ file' = written(frame[r].courses)
       /\ trace' = [trace EXCEPT ![r] = out.trace]
       /\ result' = [result EXCEPT ![r] = out.result]
       /\ pc' = [pc EXCEPT ![r] = "handled"]
       /\ UNCHANGED <<route_counter, error_counter, operation_time, accepted,
                      completed, request, frame>>

\* The tags after_request gives route_requests for one request.
after_request_routes(rq) == <<rq.endpoint>>

\* time.time() - request.start_time, in milliseconds
elapsed(now, start_time) == (now - start_time) * 1000

\* after_request (lines 78-91), then the instrumentation ends the server span.
AfterRequest(r) ==
    \E now \in Times :
        LET duration == elapsed(now, request[r].start_time)
            T == trace[r]
            s == current_span(T)
            T1 == set_attribute(T, s, "route_processing_time_ms", duration)
            T2 == add_event(T1, s, "request_processed",
                      << <<"route", request[r].endpoint>>,
                         <<"processing_time_ms", duration>> >>)
        IN /\ pc[r] = "handled"
           /\ route_counter' = counter_add(route_counter, after_request_routes(request[r]))
           /\ operation_time' = histogram_record(operation_time, request[r].endpoint)
           /\ trace' = [trace EXCEPT ![r] = span_exit(T2, "None")]
           /\ frame' = [frame EXCEPT ![r].duration = duration]
           /\ result' = [result EXCEPT ![r].log =
                            Append(@, [level |-> "INFO", event |-> "processed"])]
           /\ completed' = completed + 1
           /\ pc' = [pc EXCEPT ![r] = "done"]
           /\ UNCHANGED <<file, error_counter, accepted, request>>

\* An exception left the view function: under app.run(debug=True) it is
\* re-raised by the dispatcher, after_request does not run, and the
\* instrumentation ends the server span.
Propagate(r) ==
    /\ pc[r] = "raised"
    /\ trace' = [trace EXCEPT ![r] = span_exit(trace[r], result[r].exc)]
    /\ pc' = [pc EXCEPT ![r] = "crashed"]
    /\ UNCHANGED <<file, route_counter, error_counter, operation_time,
                   accepted, completed, request, frame, result>>

\* The request context is popped; the thread is free for the next request.
Release(r) ==
    /\ pc[r] \in {"done", "crashed"}
    /\ pc' = [pc EXCEPT ![r] = "idle"]
    /\ request' = [request EXCEPT ![r] = NoRequest]
    /\ trace' = [trace EXCEPT ![r] = EmptyTrace]
    /\ frame' = [frame EXCEPT ![r] = NoFrame]
    /\ result' = [result EXCEPT ![r] = NoResult]
    /\ UNCHANGED <<file, route_counter, error_counter, operation_time,
                   accepted, completed>>

Serve(r) ==
    \/ Index(r)
    \/ CourseCatalog(r)
    \/ AddCourse(r)
    \/ CourseDetails(r)
    \/ SaveOpen(r)
    \/ SaveDump(r)
    \/ AfterRequest(r)
    \/ Propagate(r)
    \/ Release(r)

Next == \E r \in Workers : Serve(r)

Spec == Init /\ [][Next]_vars

\* One thread only: no request is interleaved with another.
NextSeq == Serve("t1")

SpecSeq == Init /\ [][NextSeq]_vars

(***************************************************************************)
(* Vocabulary of the properties.                                           *)
(***************************************************************************)
IsAddPost(rq) == rq.endpoint = "add_course" /\ rq.method = "POST"

\* The required fields a form leaves absent or empty.
MissingSet(form) ==
    {fld \in Range(required_fields) : fld \notin DOMAIN form \/ form[fld] = ""}

\* The thread r has just taken a request in this step.
Taken(r) == pc[r] = "idle" /\ pc'[r] # "idle"

\* The handler of r's request has returned or raised.
HandlerLeft(r) == pc[r] \in {"handled", "raised", "done", "crashed"}

\* r's request is over: answered, or its exception propagated.
RequestOver(r) == pc[r] \in {"done", "crashed"}

\* r's POST /add_course succeeded.
Added(r) ==
    /\ pc[r] \in {"handled", "done"}
    /\ IsAddPost(request[r])
    /\ result[r].response = redirect("course_catalog")

HasAttribute(span, key, value) ==
    \E i \in DOMAIN span.attributes :
        span.attributes[i][1] = key /\ span.attributes[i][2] = value

MissingTag == <<"/add_course", "missing_fields">>

NotFoundTag == <<"/course/<code>", "not_found">>

(***************************************************************************)
(* C1.  Every span a request opened is closed exactly once: once the       *)
(* handler has returned or raised, each span it opened has been ended once *)
(* and only the server span is still current; once the request is over,    *)
(* every span of the request has been ended once and none is open.  No     *)
(* span is ever ended twice.                                               *)
(***************************************************************************)
C1_SpansClosedExactlyOnce ==
    \A r \in Workers :
        LET T == trace[r]
        IN /\ \A i \in DOMAIN T.spans : T.spans[i].ends <= 1
           /\ (HandlerLeft(r) /\ ~RequestOver(r)) =>
                  /\ T.stack = <<1>>
                  /\ \A i \in 2..Len(T.spans) : T.spans[i].ends = 1
           /\ RequestOver(r) =>
                  /\ T.stack = <<>>
                  /\ \A i \in DOMAIN T.spans : T.spans[i].ends = 1

\* An exception has left a handler whose route span was open.
C1_Witness ==
    \E r \in Workers :
        /\ pc[r] = "raised"
        /\ Len(trace[r].spans) = 2
        /\ trace[r].spans[2].ends = 1
        /\ trace[r].spans[2].status = "ERROR"

(***************************************************************************)
(* C2.  A POST /add_course that leaves N >= 1 required fields absent or    *)
(* empty flashes one error message naming exactly those N fields, and adds *)
(* exactly 1 to the errors counter tagged (/add_course, missing_fields)    *)
(* and nothing to its other tag.                                           *)
(***************************************************************************)
C2_AllMissingFieldsNamed ==
    [][\A r \in Workers :
          (Taken(r) /\ IsAddPost(request'[r]) /\ MissingSet(request'[r].form) # {}) =>
              /\ Len(result'[r].flashes) = 1
              /\ result'[r].flashes[1].category = "error"
              /\ Range(result'[r].flashes[1].message) \cap Range(required_fields)
                     = MissingSet(request'[r].form)
              /\ error_counter' = [error_counter EXCEPT ![MissingTag] = @ + 1]]_vars

\* A submission missing both required fields has been answered.
C2_Witness ==
    \E r \in Workers :
        /\ pc[r] = "handled"
        /\ IsAddPost(request[r])
        /\ Cardinality(MissingSet(request[r].form)) = 2
        /\ Len(result[r].flashes) = 1
        /\ error_counter[MissingTag] >= 1

(***************************************************************************)
(* C3.  A GET /course/<code> against a readable store none of whose        *)
(* records has that code adds exactly 1 to the errors counter tagged       *)
(* (/course/<code>, not_found), raises nothing, flashes a message holding  *)
(* the code and answers with a redirect to the catalog.                    *)
(***************************************************************************)
C3_NotFoundRedirects ==
    [][\A r \in Workers :
          LET L == load_courses(file)
              code == request'[r].code
          IN (/\ Taken(r)
              /\ request'[r].endpoint = "course_details"
              /\ L.ok
              /\ \A i \in DOMAIN L.val :
                     ~(HasKey(L.val[i], "code") /\ Get(L.val[i], "code") = code)) =>
                 /\ error_counter' = [error_counter EXCEPT ![NotFoundTag] = @ + 1]
                 /\ result'[r].exc = "None"
                 /\ pc'[r] = "handled"
                 /\ Len(result'[r].flashes) = 1
                 /\ code \in Range(result'[r].flashes[1].message)
                 /\ result'[r].response = redirect("course_catalog")]_vars

\* A lookup has missed in a store that holds records.
C3_Witness ==
    \E r \in Workers :
        /\ pc[r] = "handled"
        /\ request[r].endpoint = "course_details"
        /\ result[r].response = redirect("course_catalog")
        /\ frame[r].courses # <<>>
        /\ error_counter[NotFoundTag] >= 1

(***************************************************************************)
(* C4.  With no other writer interleaved (SpecSeq), save_courses(c) on a   *)
(* store holding S reads S, and a load_courses() after it returns S        *)
(* followed by c: length |S| + 1, the first |S| elements S in order, the   *)
(* last element c.                                                         *)
(***************************************************************************)
C4_SaveThenLoad ==
    \A r \in Workers :
        /\ pc[r] = "loaded" =>
               LET L == load_courses(file) IN L.ok /\ L.val = frame[r].loaded
        /\ Added(r) =>
               LET L == load_courses(file)
                   S == frame[r].loaded
               IN /\ L.ok
                  /\ Len(L.val) = Len(S) + 1
                  /\ SubSeq(L.val, 1, Len(S)) = S
                  /\ L.val[Len(L.val)] = frame[r].course

\* A record has been appended to a store that already held one.
C4_Witness ==
    \E r \in Workers :
        /\ Added(r)
        /\ Len(frame[r].loaded) >= 1
        /\ file.exists

(***************************************************************************)
(* C5.  No request ends with one of the three error kinds leaving its      *)
(* handler: in particular no handler raises on an unparseable store        *)
(* (json.load's JSONDecodeError is the StoreUnavailable kind).             *)
(***************************************************************************)
C5_ErrorKindsNeverPropagate ==
    \A r \in Workers :
        result[r].exc \notin {"ValidationError", "NotFoundError", "JSONDecodeError"}

(***************************************************************************)
(* C6.  Whenever a request ended in a handled domain failure (an error     *)
(* flash and a redirect), its route span carries the error and error_type  *)
(* attributes and has a closed child span with status ERROR and a recorded  *)
(* exception.                                                              *)
(***************************************************************************)
C6_FailuresRecordedOnTrace ==
    \A r \in Workers :
        (/\ pc[r] \in {"handled", "done"}
         /\ result[r].response.kind = "redirect"
         /\ \E i \in DOMAIN result[r].flashes : result[r].flashes[i].category = "error") =>
            LET S == trace[r].spans
            IN /\ HasAttribute(S[2], "error", "True")
               /\ \E i \in DOMAIN S[2].attributes : S[2].attributes[i][1] = "error_type"
               /\ \E j \in DOMAIN S :
                      /\ S[j].parent = 2
                      /\ S[j].status = "ERROR"
                      /\ S[j].exceptions # <<>>
                      /\ S[j].ends = 1

(***************************************************************************)
(* C7.  Every completed request has recorded exactly one sample in the     *)
(* operation_duration histogram, and the recorded value is >= 0.           *)
(***************************************************************************)
C7_DurationRecordedOnceNonNegative ==
    /\ Sum([route \in Endpoints |-> operation_time[route].count], Endpoints) = completed
    /\ \A r \in Workers : pc[r] = "done" => frame[r].duration >= 0

(***************************************************************************)
(* C8.  A POST /add_course whose code and name are both non-empty, sent    *)
(* against a readable store, never fails, whatever the other seven fields  *)
(* hold (a value, the empty string, or nothing at all): the handler raises *)
(* nothing and counts no error.                                            *)
(***************************************************************************)
C8_OnlyCodeAndNameRequired ==
    [][\A r \in Workers :
          (/\ Taken(r)
           /\ IsAddPost(request'[r])
           /\ MissingSet(request'[r].form) = {}
           /\ load_courses(file).ok) =>
              /\ result'[r].exc = "None"
              /\ error_counter' = error_counter
              /\ frame'[r].course = [i \in DOMAIN CourseFields |->
                     <<CourseFields[i], FormGet(request'[r].form, CourseFields[i])>>]]_vars

(***************************************************************************)
(* C9.  Lost update.  When two POST /add_course requests have both         *)
(* succeeded and both had read the same store content S, the store holds   *)
(* S followed by the record of one of them only: it grew by 1, not by 2.   *)
(***************************************************************************)
C9_LostUpdate ==
    \A r1, r2 \in Workers :
        (r1 # r2 /\ Added(r1) /\ Added(r2) /\ frame[r1].loaded = frame[r2].loaded) =>
            LET L == load_courses(file)
                S == frame[r1].loaded
            IN /\ L.ok
               /\ Len(L.val) = Len(S) + 1
               /\ SubSeq(L.val, 1, Len(S)) = S
               /\ L.val[Len(L.val)] \in {frame[r1].course, frame[r2].course}

\* Two different records were submitted concurrently, both requests
\* succeeded, and the store holds one record.
C9_Witness ==
    \E r1, r2 \in Workers :
        /\ r1 # r2
        /\ Added(r1) /\ Added(r2)
        /\ frame[r1].loaded = frame[r2].loaded
        /\ frame[r1].course # frame[r2].course
        /\ load_courses(file).val = Append(frame[r1].loaded, frame[r2].course)

(***************************************************************************)
(* C10.  Whenever no request is in progress, the route_requests counter,   *)
(* summed over its tags, equals the number of completed requests.          *)
(***************************************************************************)
C10_OneRouteCountPerRequest ==
    (\A r \in Workers : pc[r] \in {"idle", "done"}) =>
        Sum(route_counter, RouteTags) = completed

====
